---- MODULE Spec2Model ----
(***************************************************************************)
(* A state-machine model of the UEFI safety layer: the process-wide        *)
(* globals and entry point (uefi/src/lib.rs), the phase-typed system table *)
(* and the boot-services operations (uefi/src/table.rs), the protocol      *)
(* Scope guard (nuefi/src/proto.rs), the pool allocator bridge             *)
(* (uefi/src/alloc.rs) and the Device Path codec over the node header of   *)
(* core/src/proto/device_path.rs.                                          *)
(*                                                                         *)
(* Firmware is the environment: every firmware function returns a status   *)
(* chosen nondeterministically, and firmware may null the boot_services    *)
(* pointer of the live system table while user code runs.                  *)
(*                                                                         *)
(* Handlers are pure operators from a machine record to a machine record,  *)
(* so that a handler calling another (close -> drop -> close_protocol ->   *)
(* log) is one atomic action.                                              *)
(***************************************************************************)
EXTENDS Integers, Sequences, FiniteSets, TLC

(***************************************************************************)
(* Bounds                                                                  *)
(***************************************************************************)
\* number of Scope values the user program may obtain in one run
MaxScopes == 2
\* width, in bits, of the scaled-down firmware native unsigned integer
UsizeBits == 3
\* number of whole node records a Device Path buffer is put together from
MaxNodes == 2

(***************************************************************************)
(* Values                                                                  *)
(***************************************************************************)
Null == "null"

\* EFI status words (error.rs): zero is success, high bit set is an error,
\* anything else a warning.
SUCCESS == "SUCCESS"
INVALID_PARAMETER == "INVALID_PARAMETER"
UNSUPPORTED == "UNSUPPORTED"
NOT_FOUND == "NOT_FOUND"
ACCESS_DENIED == "ACCESS_DENIED"

\* LoadImage alone answers it: the image is loaded but may not be started
SECURITY_VIOLATION == "SECURITY_VIOLATION"

Statuses == {SUCCESS, INVALID_PARAMETER, UNSUPPORTED, NOT_FOUND,
             ACCESS_DENIED}

\* statuses a failing call or a failing main may carry
ErrStatuses == Statuses \ {SUCCESS}

\* EfiStatus::is_success
IsSuccess(st) == st = SUCCESS

\* UefiError::new(status)
UefiError_new(st) == [status |-> st]

\* UefiError::status()
UefiError_status(e) == e.status

\* impl From<EfiStatus> for Result<()>: the .into() of the pass-through
\* operations
EfiStatus_into(st) ==
    IF IsSuccess(st) THEN [ok |-> TRUE, err |-> UefiError_new(SUCCESS)]
                     ELSE [ok |-> FALSE, err |-> UefiError_new(st)]

\* Firmware tables the entry point may be handed: at most one slot empty
AbsentChoices == {{}, {"close_protocol"}}

Handles == {"h1", "h2"}
Agents == {"image"}
Controllers == {"None", "c1"}

\* MemoryType::LOADER_DATA
LOADER_DATA == "LOADER_DATA"

\* what firmware may leave in an out-pointer: nothing, or a pool address
Pointers == {Null, "p1"}

\* controller.unwrap_or(EfiHandle(null_mut()))
unwrap_or_null(controller) == IF controller = "None" THEN Null ELSE controller

VARIABLES
    pc,       \* position of the image: entry, stored_handle, stored_table,
              \* main, returned, terminated, panicked, faulted
    TABLE,    \* static TABLE: AtomicPtr<RawSystemTable>
    HANDLE,   \* static HANDLE: AtomicPtr<c_void>
    fw,       \* the live firmware system table
    fwOpen,   \* firmware's open-protocol registrations (handle, agent, ctrl)
    scopes,   \* the Scope values of the user program
    boot,     \* BootServices value held by user code: the captured pointer
    last,     \* what the last operation of the layer did and returned
    ret,      \* status returned by efi_main ("none" before it returns)
    hist,     \* history: counters and flags the properties read
    dp,       \* the Device Path codec: its input buffer and what it made of it
    loaded_image, \* the LoadedImage interface: options and options_size
    mac       \* a macro expansion: the attribute's input and what came out

vars == <<pc, TABLE, HANDLE, fw, fwOpen, scopes, boot, last, ret, hist, dp,
          loaded_image, mac>>

\* The machine as one record
Cur == [pc |-> pc, TABLE |-> TABLE, HANDLE |-> HANDLE, fw |-> fw,
        fwOpen |-> fwOpen, scopes |-> scopes, boot |-> boot, last |-> last,
        ret |-> ret, hist |-> hist, loaded_image |-> loaded_image]

Becomes(m) ==
    /\ pc' = m.pc
    /\ TABLE' = m.TABLE
    /\ HANDLE' = m.HANDLE
    /\ fw' = m.fw
    /\ fwOpen' = m.fwOpen
    /\ scopes' = m.scopes
    /\ boot' = m.boot
    /\ last' = m.last
    /\ ret' = m.ret
    /\ hist' = m.hist
    /\ loaded_image' = m.loaded_image
    /\ dp' = dp
    /\ mac' = mac

\* op, who, args: the operation, the Scope it ran on and its arguments (for
\* a Scope, the triple it was opened with); at: the phase it started in;
\* res, status, val: what it returned; fwOp, fwArgs, fwStatus, fwOut: the
\* firmware function it invoked and what that answered; fwCalls: how many
\* firmware functions it invoked; logs, written: the log records it handed
\* to the logger and those the logger wrote to the console
NoLast == [op |-> "none", who |-> 0, args |-> <<>>, at |-> "pre",
           res |-> "none",
           status |-> "none", val |-> "none", fwOp |-> "none",
           fwArgs |-> <<>>, fwStatus |-> "none", fwOut |-> "none",
           fwCalls |-> 0, logs |-> {},
           written |-> {}]

NoScope == [state |-> "unopened", handle |-> Null, agent |-> Null,
            controller |-> "None", attempts |-> 0, endings |-> 0]

\* buf: the bytes handed to the codec; state: input, parsed, malformed,
\* serialized, duplicated, sized, appended or node_appended; nodes: the
\* node views exposed; maxRead: the highest byte position read; out: the
\* bytes written; other: the second path or the node of an append; size:
\* the answer of size_of
NoPath == [buf |-> <<>>, state |-> "none", nodes |-> <<>>, maxRead |-> 0,
           out |-> <<>>, other |-> <<>>, size |-> 0]

\* LoadedImage load options before set_options: none
NoImage == [options |-> Null, options_size |-> 0]

\* kind: which attribute is expanded (Protocol or entry); state: input or
\* expanded; text: the GUID string of Protocol; guid: the bytes of the
\* generated GUID; back: the text made from them; args, params: the
\* arguments of entry and the parameter list of the annotated function;
\* cfg: the resulting Config; errors: the errors recorded; emitted: the
\* messages of the compile error put out
NoMacro == [kind |-> "none", state |-> "none",
            text |-> [some |-> FALSE, text |-> <<>>], guid |-> <<>>,
            back |-> <<>>, args |-> <<>>, params |-> <<>>, cfg |-> <<>>,
            errors |-> <<>>, emitted |-> <<>>, compile_error |-> FALSE]

Init ==
    /\ dp = NoPath
    /\ loaded_image = NoImage
    /\ mac = NoMacro
    /\ pc = "entry"
    /\ TABLE = Null
    /\ HANDLE = Null
    /\ fw \in [boot_services : {"bs"}, con_out : {Null, "con"},
               absent : AbsentChoices]
    /\ fwOpen = {}
    /\ scopes = [s \in 1..MaxScopes |-> NoScope]
    /\ boot = Null
    /\ last = NoLast
    /\ ret = "none"
    /\ hist = [tableWrites |-> 0, handleWrites |-> 0, mainCalls |-> 0,
               exited |-> FALSE]

(***************************************************************************)
(* Table phase probes (table.rs) and the global accessor (lib.rs)          *)
(***************************************************************************)
\* as_boot without the look at the live table: the answer of the boot phase
as_boot_stale(m) == "Some"

\* SystemTable<Internal>::as_boot: reads the live table on every call
as_boot(m) == IF m.fw.boot_services # Null THEN "Some" ELSE "None"

\* SystemTable<Internal>::_as_runtime
as_runtime(m) == IF m.fw.boot_services # Null THEN "Some" ELSE "None"

\* get_boot_table()
get_boot_table(m) == IF m.TABLE = Null THEN "None" ELSE as_boot(m)

\* the panic handler's reads: the table through get_boot_table, and the
\* image handle once a Boot table came back
read_globals(m) ==
    LET b == [m EXCEPT !.last = [NoLast EXCEPT !.op = "get_boot_table",
                  !.at = IF m.hist.exited THEN "runtime"
                         ELSE IF m.TABLE = Null THEN "pre" ELSE "boot"]]
    IN IF get_boot_table(m) = "Some"
       THEN [b EXCEPT !.last.res = "Some", !.last.val = m.HANDLE]
       ELSE [b EXCEPT !.last.res = "None"]

\* panic!/assert!/unwrap failure: the panic handler never returns
Panic(m) == [m EXCEPT !.pc = "panicked"]

Running(m) == m.pc \notin {"panicked", "faulted", "terminated"}

\* SystemTable<Boot>::stdout: asserts con_out is not null
stdout_ok(m) == m.fw.con_out # Null

\* UefiLogger::enabled
enabled(target) == target = "uefi_stub" \/ target = "uefi"

\* UefiLogger::log, reached from info!/error! with the caller's module path
log(m, target, msg) ==
    LET req == [m EXCEPT !.last.logs = @ \cup {msg}]
    IN IF get_boot_table(req) = "Some" /\ enabled(target)
       THEN IF stdout_ok(req)
            THEN [req EXCEPT !.last.written = @ \cup {msg}]
            ELSE Panic(req)
       ELSE req

(***************************************************************************)
(* Firmware: the function-pointer table behind BootServices                *)
(***************************************************************************)
\* outcome of a call through a pointer into boot-services memory that
\* firmware has already given up: undefined, so it may also never return
Fault == "FAULT"

\* what the firmware function of a slot may answer
FwStatuses(slot) ==
    {SUCCESS, ACCESS_DENIED}
    \cup (IF slot = "open_protocol" THEN {UNSUPPORTED} ELSE {})
    \cup (IF slot \in {"close_protocol", "locate_protocol"}
          THEN {NOT_FOUND} ELSE {})
    \cup (IF slot = "load_image" THEN {SECURITY_VIOLATION} ELSE {})
    \cup (IF slot \notin {"open_protocol", "close_protocol"}
          THEN {INVALID_PARAMETER} ELSE {})

\* what a call of the slot may do in the machine's present state
FwOutcomes(m, slot) ==
    IF m.fw.boot_services = Null THEN FwStatuses(slot) \cup {Fault}
    ELSE FwStatuses(slot)

\* CloseProtocol succeeds only on a registration that is open
FwAllows(m, slot, args, st) ==
    /\ st \in FwOutcomes(m, slot)
    /\ (slot = "close_protocol" /\ st = SUCCESS) => args \in m.fwOpen

\* firmware's registrations after the call
FwRegistrations(m, slot, args, st) ==
    IF m.fw.boot_services = Null \/ st # SUCCESS THEN m.fwOpen
    ELSE IF slot = "open_protocol" THEN m.fwOpen \cup {args}
    ELSE IF slot = "close_protocol" THEN m.fwOpen \ {args}
    ELSE m.fwOpen

\* the phase an operation starts in: before the globals are installed, in
\* the boot phase, or after firmware gave up boot services
Phase(m) ==
    IF m.hist.exited THEN "runtime"
    ELSE IF m.TABLE = Null THEN "pre" ELSE "boot"

\* start of an operation of the layer: nothing done or returned yet
Begin(m, op, who) ==
    [m EXCEPT !.last = [NoLast EXCEPT !.op = op, !.who = who,
                                      !.at = Phase(m)]]

\* (self.interface().<slot>.unwrap())(args): unwrap panics on an empty slot;
\* otherwise the firmware function is invoked through the captured pointer,
\* without looking at the live system table
FwCall(m, slot, args, st) ==
    IF slot \in m.fw.absent THEN Panic(m)
    ELSE LET called == [m EXCEPT !.last.fwOp = slot,
                                 !.last.fwArgs = args,
                                 !.last.fwStatus = st,
                                 !.last.fwCalls = @ + 1,
                                 !.fwOpen = FwRegistrations(m, slot, args, st)]
         IN IF st = Fault THEN [called EXCEPT !.pc = "faulted"] ELSE called

\* the operation returns Result r to its caller
Return(m, r) ==
    IF r.ok THEN [m EXCEPT !.last.res = "Ok", !.last.status = SUCCESS]
    ELSE [m EXCEPT !.last.res = "Err",
                   !.last.status = UefiError_status(r.err)]

Ok == [ok |-> TRUE, err |-> UefiError_new(SUCCESS)]

Err(st) == [ok |-> FALSE, err |-> UefiError_new(st)]

(***************************************************************************)
(* Entry point (lib.rs)                                                    *)
(***************************************************************************)
\* the two stores in the other order: the table pointer published first
store_first_swapped(m, image, system_table) ==
    [m EXCEPT !.TABLE = system_table, !.hist.tableWrites = @ + 1]

\* HANDLE.store(image.0, Ordering::Relaxed): the first of the two stores
store_first(m, image, system_table) ==
    [m EXCEPT !.HANDLE = image, !.hist.handleWrites = @ + 1]

\* TABLE.store(system_table, Ordering::Release): the second store
store_second(m, image, system_table) ==
    [m EXCEPT !.TABLE = system_table, !.hist.tableWrites = @ + 1]

\* efi_main called with its arguments: last keeps them
efi_main_called(m, image, system_table, valid) ==
    [Begin(m, "efi_main", 0) EXCEPT !.last.args =
                                       <<image, system_table, valid>>]

\* an efi_main that stores the image handle before it looks at the table
efi_main_enter_eager(m, image, system_table, valid) ==
    LET b == efi_main_called(m, image, system_table, valid)
        s == store_first(b, image, system_table)
    IN IF image = Null \/ system_table = Null
       THEN [s EXCEPT !.pc = "returned", !.ret = INVALID_PARAMETER]
       ELSE IF valid # SUCCESS
       THEN [s EXCEPT !.pc = "returned",
                      !.ret = UefiError_status(Err(valid).err)]
       ELSE [s EXCEPT !.pc = "stored_handle"]

\* efi_main up to and including the first store. valid is the result of
\* RawSystemTable::validate: SUCCESS for Ok, the error's status otherwise
efi_main_enter(m, image, system_table, valid) ==
    LET b == efi_main_called(m, image, system_table, valid)
    IN IF image = Null \/ system_table = Null
       THEN [b EXCEPT !.pc = "returned", !.ret = INVALID_PARAMETER]
       ELSE IF valid # SUCCESS
       THEN [b EXCEPT !.pc = "returned",
                      !.ret = UefiError_status(Err(valid).err)]
       ELSE [store_first(b, image, system_table)
                EXCEPT !.pc = "stored_handle"]

\* a chain of log calls: the first panic ends it
RECURSIVE log_all(_, _, _)
log_all(m, target, msgs) ==
    IF msgs = <<>> \/ ~Running(m) THEN m
    ELSE log_all(log(m, target, Head(msgs)), target, Tail(msgs))

\* efi_main from UefiLogger::init to the call of the user main
efi_main_call_main(m) ==
    LET logged == log_all(Begin(m, "efi_main", 0), "uefi",
                          <<"crate_initialized", "starting_main",
                            "efi_main_at", "user_main_at">>)
    IN IF ~Running(logged) THEN logged
       ELSE [logged EXCEPT !.pc = "main", !.hist.mainCalls = @ + 1]

\* a match that answers every Err with one fixed status
efi_main_status_lossy(r) == IF r.ok THEN SUCCESS ELSE INVALID_PARAMETER

\* efi_main after main returned r: the status handed back to firmware
efi_main_status(r) == IF r.ok THEN SUCCESS ELSE UefiError_status(r.err)

\* last keeps main's result r beside the status efi_main makes of it
efi_main_return(m, r) ==
    LET logged == log(Return(Begin(m, "main_returned", 0), r), "uefi",
                      "returned_from_main")
    IN IF ~Running(logged) THEN logged
       ELSE [logged EXCEPT !.pc = "returned", !.ret = efi_main_status(r)]

(***************************************************************************)
(* SystemTable<Boot> and BootServices (table.rs)                           *)
(***************************************************************************)
\* SystemTable<Boot>::boot: asserts the pointer, then captures it
SystemTable_boot(m) ==
    IF m.fw.boot_services = Null THEN Panic(m)
    ELSE [m EXCEPT !.boot = m.fw.boot_services]

\* largest value of the firmware's native unsigned integer
UsizeMax == 2 ^ UsizeBits - 1

\* the pass-through operations: call the slot, convert the status
pass_through(m, op, slot, args, st) ==
    LET c == FwCall(Begin(m, op, 0), slot, args, st)
    IN IF ~Running(c) THEN c ELSE Return(c, EfiStatus_into(st))

\* BootServices::exit: a successful Exit does not come back
BootServices_exit(m, handle, status, st) ==
    LET c == pass_through(m, "exit", "exit", <<handle, status>>, st)
    IN IF Running(c) /\ IsSuccess(st) THEN [c EXCEPT !.pc = "terminated"]
       ELSE c

\* core::time::Duration: whole seconds and the nanoseconds of the last one
NanosPerSec == 1000000000
Duration_new(secs, nanos) == [secs |-> secs, nanos |-> nanos]

\* Duration::default()
Duration_default == Duration_new(0, 0)

\* Duration::as_micros (u128)
as_micros(dur) == dur.secs * 1000000 + dur.nanos \div 1000

\* Duration::as_secs (u64)
as_secs(dur) == dur.secs

\* Option<Duration>
None_Duration == [some |-> FALSE, dur |-> Duration_default]
Some_Duration(dur) == [some |-> TRUE, dur |-> dur]

\* Option::unwrap_or_default
unwrap_or_default(opt) == IF opt.some THEN opt.dur ELSE Duration_default

\* an operation of BootServices starts with the arguments it was given
BeginOp(m, op, args) == [Begin(m, op, 0) EXCEPT !.last.args = args]

\* the rest of a pass-through operation that has started: call the slot,
\* convert the status
call_into(b, slot, fwArgs, st) ==
    LET c == FwCall(b, slot, fwArgs, st)
    IN IF ~Running(c) THEN c ELSE Return(c, EfiStatus_into(st))

\* a stall that casts the microsecond count to the firmware's width
BootServices_stall_wrapping(m, dur, st) ==
    call_into(BeginOp(m, "stall", <<dur>>), "stall",
              <<as_micros(dur) % (UsizeMax + 1)>>, st)

\* BootServices::stall: try_into of dur.as_micros() fails above usize::MAX
BootServices_stall(m, dur, st) ==
    IF as_micros(dur) > UsizeMax
    THEN Return(BeginOp(m, "stall", <<dur>>),
                EfiStatus_into(INVALID_PARAMETER))
    ELSE call_into(BeginOp(m, "stall", <<dur>>), "stall",
                   <<as_micros(dur)>>, st)

\* the period of the watchdog code passed with every call: 0x10000
WatchdogCode == 65536

\* BootServices::set_watchdog: try_into of timeout.as_secs() fails above
\* usize::MAX
BootServices_set_watchdog(m, timeout, st) ==
    LET dur == unwrap_or_default(timeout)
    IN IF as_secs(dur) > UsizeMax
       THEN Return(BeginOp(m, "set_watchdog", <<timeout>>),
                   EfiStatus_into(INVALID_PARAMETER))
       ELSE call_into(BeginOp(m, "set_watchdog", <<timeout>>),
                      "set_watchdog_timer",
                      <<as_secs(dur), WatchdogCode, 0, Null>>, st)

\* a locate_protocol whose "not present" test is the one of open_protocol
BootServices_locate_protocol_unsupported(m, guid, st, out) ==
    LET c == FwCall(BeginOp(m, "locate_protocol", <<guid>>),
                    "locate_protocol", <<guid, Null>>, st)
        o == [c EXCEPT !.last.fwOut = out]
    IN IF ~Running(c) THEN c
       ELSE IF IsSuccess(st)
       THEN [o EXCEPT !.last.res = "Some", !.last.status = SUCCESS,
                      !.last.val = out]
       ELSE IF st = UNSUPPORTED
       THEN [o EXCEPT !.last.res = "None", !.last.status = SUCCESS]
       ELSE Return(o, Err(st))

\* BootServices::locate_protocol::<T>; guid is T::GUID, out what firmware
\* left in out; Some holds T::from_raw(out)
BootServices_locate_protocol(m, guid, st, out) ==
    LET c == FwCall(BeginOp(m, "locate_protocol", <<guid>>),
                    "locate_protocol", <<guid, Null>>, st)
        o == [c EXCEPT !.last.fwOut = out]
    IN IF ~Running(c) THEN c
       ELSE IF IsSuccess(st)
       THEN [o EXCEPT !.last.res = "Some", !.last.status = SUCCESS,
                      !.last.val = out]
       ELSE IF st = NOT_FOUND
       THEN [o EXCEPT !.last.res = "None", !.last.status = SUCCESS]
       ELSE Return(o, Err(st))

\* BootServices::load_image; len is src.len(), out what firmware left in
\* out. The value returned is Result<EfiHandle>: Ok holds the handle and
\* nothing else
BootServices_load_image(m, parent, len, st, out) ==
    LET c == FwCall(BeginOp(m, "load_image", <<parent, len>>),
                    "load_image", <<FALSE, parent, Null, "src", len>>, st)
        o == [c EXCEPT !.last.fwOut = out]
    IN IF ~Running(c) THEN c
       ELSE IF IsSuccess(st) \/ st = SECURITY_VIOLATION
       THEN IF out = Null THEN Panic(o)   \* assert_ne!
            ELSE [Return(o, Ok) EXCEPT !.last.val = out]
       ELSE Return(o, Err(st))

\* BootServices::next_monotonic_count
BootServices_next_monotonic_count(m, st) ==
    LET c == FwCall(Begin(m, "next_monotonic_count", 0),
                    "get_next_monotonic_count", <<>>, st)
    IN IF ~Running(c) THEN c
       ELSE IF IsSuccess(st) THEN Return(c, Ok)
       ELSE Return(c, Err(st))

\* allocate_pool that hands back whatever is in out, whatever the status
BootServices_allocate_pool_unchecked(m, ty, size, st, out) ==
    LET c == FwCall(Begin(m, "allocate_pool", 0), "allocate_pool",
                    <<ty, size>>, st)
    IN IF ~Running(c) THEN c
       ELSE [Return(c, Ok) EXCEPT !.last.fwOut = out, !.last.val = out]

\* BootServices::allocate_pool; out is what firmware left in out
BootServices_allocate_pool(m, ty, size, st, out) ==
    LET c == FwCall(Begin(m, "allocate_pool", 0), "allocate_pool",
                    <<ty, size>>, st)
    IN IF ~Running(c) THEN c
       ELSE IF IsSuccess(st)
       THEN [Return(c, Ok) EXCEPT !.last.fwOut = out, !.last.val = out]
       ELSE [Return(c, Err(st)) EXCEPT !.last.fwOut = out]

\* BootServices::free_pool
BootServices_free_pool(m, memory, st) ==
    pass_through(m, "free_pool", "free_pool", <<memory>>, st)

\* BootServices::close_protocol
BootServices_close_protocol(m, handle, agent, controller, st) ==
    pass_through(m, "close_protocol", "close_protocol",
                 <<handle, agent, unwrap_or_null(controller)>>, st)

\* BootServices::start_image
BootServices_start_image(m, handle, st) ==
    pass_through(m, "start_image", "start_image", <<handle>>, st)

\* BootServices::unload_image
BootServices_unload_image(m, handle, st) ==
    pass_through(m, "unload_image", "unload_image", <<handle>>, st)

\* BootServices::install_protocol, through install_protocol_ptr
BootServices_install_protocol(m, handle, interface, st) ==
    pass_through(m, "install_protocol", "install_protocol_interface",
                 <<handle, interface>>, st)

(***************************************************************************)
(* LoadedImage (loaded_image.rs)                                           *)
(***************************************************************************)
\* width of u32 next to the scaled-down usize
U32Bits == UsizeBits - 1
u32_MAX == 2 ^ U32Bits - 1

\* usize to u32: try_into() of a usize
try_into_u32(n) == [ok |-> n <= u32_MAX, val |-> n]

\* len * size on u32: the build decides what an overflow does, a panic
\* with overflow checks (debug), the product modulo 2^32 without (release)
u32_mul(a, b, overflow_checks) ==
    IF a * b <= u32_MAX THEN [ok |-> TRUE, val |-> a * b]
    ELSE IF overflow_checks THEN [ok |-> FALSE, val |-> 0]
    ELSE [ok |-> TRUE, val |-> (a * b) % (u32_MAX + 1)]

\* LoadedImage::set_options::<T>(data) with len = data.len() and
\* size = size_of::<T>(): the pointer is stored first, then both numbers
\* are converted, then the product is stored
LoadedImage_set_options(m, len, size, overflow_checks) ==
    LET b == BeginOp(m, "set_options", <<len, size>>)
        stored == [b EXCEPT !.loaded_image.options = "data"]
        l == try_into_u32(len)
        z == try_into_u32(size)
    IN IF ~l.ok \/ ~z.ok THEN Panic(stored)
       ELSE LET product == u32_mul(l.val, z.val, overflow_checks)
            IN IF ~product.ok THEN Panic(stored)
               ELSE [stored EXCEPT !.loaded_image.options_size = product.val,
                                   !.last.res = "unit",
                                   !.last.val = product.val]

(***************************************************************************)
(* Scope (proto.rs) and open_protocol (table.rs)                           *)
(***************************************************************************)
\* the Scope slot the next successful open_protocol fills (0: none left)
FreeScope(m) ==
    IF \E s \in 1..MaxScopes : m.scopes[s].state = "unopened"
    THEN CHOOSE s \in 1..MaxScopes :
            /\ m.scopes[s].state = "unopened"
            /\ \A t \in 1..MaxScopes :
                  m.scopes[t].state = "unopened" => s <= t
    ELSE 0

\* Scope::new
Scope_new(handle, agent, controller) ==
    [state |-> "open", handle |-> handle, agent |-> agent,
     controller |-> controller, attempts |-> 0, endings |-> 0]

\* open_protocol that tests only for UNSUPPORTED and takes the rest as success
BootServices_open_protocol_any(m, handle, agent, controller, st) ==
    LET c == FwCall(Begin(m, "open_protocol", 0), "open_protocol",
                    <<handle, agent, unwrap_or_null(controller)>>, st)
    IN IF ~Running(c) THEN c
       ELSE IF st = UNSUPPORTED
       THEN [c EXCEPT !.last.res = "None", !.last.status = SUCCESS]
       ELSE [c EXCEPT !.scopes[FreeScope(m)] =
                          Scope_new(handle, agent, controller),
                      !.last.res = "Some", !.last.status = SUCCESS,
                      !.last.who = FreeScope(m)]

\* BootServices::open_protocol
BootServices_open_protocol(m, handle, agent, controller, st) ==
    LET c == FwCall(Begin(m, "open_protocol", 0), "open_protocol",
                    <<handle, agent, unwrap_or_null(controller)>>, st)
    IN IF ~Running(c) THEN c
       ELSE IF IsSuccess(st)
       THEN [c EXCEPT !.scopes[FreeScope(m)] =
                          Scope_new(handle, agent, controller),
                      !.last.res = "Some", !.last.status = SUCCESS,
                      !.last.who = FreeScope(m)]
       ELSE IF st = UNSUPPORTED
       THEN [c EXCEPT !.last.res = "None", !.last.status = SUCCESS]
       ELSE Return(c, Err(st))

\* a destructor that closes without asking for the Boot table first
Scope_drop_unchecked(m, s, st) ==
    LET sc == m.scopes[s]
        closed == BootServices_close_protocol(m, sc.handle, sc.agent,
                                              sc.controller, st)
        c == [closed EXCEPT !.last.op = m.last.op, !.last.who = s,
                            !.last.args = m.last.args]
    IN IF ~Running(c) THEN c
       ELSE LET n == [c EXCEPT !.scopes[s].attempts = @ + 1]
            IN IF n.last.res = "Err"
               THEN log(n, "nuefi::proto", "drop_error")
               ELSE n

\* <Scope as Drop>::drop of Scope s; st is what firmware answers the close
Scope_drop(m, s, st) ==
    IF get_boot_table(m) = "Some"
    THEN LET sc == m.scopes[s]
             b == SystemTable_boot(m)
             closed == BootServices_close_protocol(
                           [b EXCEPT !.boot = m.boot], sc.handle, sc.agent,
                           sc.controller, st)
             c == [closed EXCEPT !.last.op = m.last.op, !.last.who = s,
                                 !.last.args = m.last.args]
         IN IF ~Running(c) THEN c
            ELSE LET n == [c EXCEPT !.scopes[s].attempts = @ + 1]
                 IN IF n.last.res = "Err"
                    THEN log(n, "nuefi::proto", "drop_error")
                    ELSE n
    ELSE log(m, "nuefi::proto", "drop_after_boot")

\* the Scope value is gone (closed, leaked or dropped), its fields with it
End(m, s, how) ==
    IF ~Running(m) THEN m
    ELSE [m EXCEPT !.scopes[s] = [NoScope EXCEPT !.state = how,
                       !.attempts = m.scopes[s].attempts,
                       !.endings = m.scopes[s].endings + 1]]

\* start of an operation that takes Scope s by value
BeginScope(m, op, s) ==
    [Begin(m, op, s) EXCEPT !.last.args =
        <<m.scopes[s].handle, m.scopes[s].agent,
          unwrap_or_null(m.scopes[s].controller)>>]

\* implicit destruction: end of scope, early return
Scope_implicit_drop(m, s, st) ==
    End(Scope_drop(BeginScope(m, "drop", s), s, st), s, "dropped")

\* a close that calls close_protocol in its body and then drops self as well
Scope_close_twice(m, s, st) ==
    LET sc == m.scopes[s]
        first == BootServices_close_protocol(m, sc.handle, sc.agent,
                                             sc.controller, st)
        counted == IF Running(first)
                   THEN [first EXCEPT !.scopes[s].attempts = @ + 1]
                   ELSE first
        dropped == IF Running(counted)
                   THEN Scope_drop(BeginScope(counted, "close", s), s,
                                   NOT_FOUND)
                   ELSE counted
    IN End(IF Running(dropped) THEN [dropped EXCEPT !.last.res = "unit"]
           ELSE dropped, s, "closed")

\* Scope::close(self) {}: the empty body, then self goes out of scope
Scope_close(m, s, st) ==
    LET dropped == Scope_drop(BeginScope(m, "close", s), s, st)
    IN End(IF Running(dropped) THEN [dropped EXCEPT !.last.res = "unit",
                                                    !.last.status = "none"]
           ELSE dropped, s, "closed")

\* a leak that lets the destructor run
Scope_leak_dropping(m, s) ==
    End(Scope_drop(BeginScope(m, "leak", s), s, NOT_FOUND), s, "leaked")

\* Scope::leak: core::mem::forget(self), no destructor runs
Scope_leak(m, s) == End(BeginScope(m, "leak", s), s, "leaked")

(***************************************************************************)
(* Pool allocator bridge (alloc.rs)                                        *)
(***************************************************************************)
\* the alignment firmware's pool gives: if align > 8
PoolAlign == 8

\* start of an allocator call: the arguments it was given
BeginAlloc(m, op, args) == [Begin(m, op, 0) EXCEPT !.last.args = args]

\* the temporary table.boot() of a callback: the user's BootServices value
\* is not touched
TempBoot(m) == [SystemTable_boot(m) EXCEPT !.boot = m.boot]

\* the allocator call op returns ptr (unit for dealloc); what the inner
\* boot-services call recorded of the firmware call stays
AllocReturn(m, from, res, ptr) ==
    [m EXCEPT !.last.op = from.last.op, !.last.args = from.last.args,
              !.last.logs = from.last.logs \cup m.last.logs,
              !.last.written = from.last.written \cup m.last.written,
              !.last.res = res, !.last.status = "none", !.last.val = ptr]

\* an alloc without the alignment test
alloc_any_align(m, size, align, st, out) ==
    LET l == log(BeginAlloc(m, "alloc", <<size, align>>), "uefi::alloc",
                 "allocating")
    IN IF ~Running(l) THEN l
       ELSE IF get_boot_table(l) = "Some"
       THEN LET b == TempBoot(l)
                a == IF Running(b)
                     THEN BootServices_allocate_pool(b, LOADER_DATA, size,
                                                     st, out)
                     ELSE b
            IN IF ~Running(a) THEN a
               ELSE AllocReturn(a, l, "ptr",
                                IF a.last.res = "Ok" THEN a.last.val
                                ELSE Null)
       ELSE AllocReturn(l, l, "ptr", Null)

\* an alloc that looks only at the global pointer, not at as_boot
alloc_unprobed(m, size, align, st, out) ==
    LET l == log(BeginAlloc(m, "alloc", <<size, align>>), "uefi::alloc",
                 "allocating")
    IN IF ~Running(l) THEN l
       ELSE IF align > PoolAlign THEN AllocReturn(l, l, "ptr", Null)
       ELSE IF l.TABLE # Null
       THEN LET b == TempBoot(l)
                a == IF Running(b)
                     THEN BootServices_allocate_pool(b, LOADER_DATA, size,
                                                     st, out)
                     ELSE b
            IN IF ~Running(a) THEN a
               ELSE AllocReturn(a, l, "ptr",
                                IF a.last.res = "Ok" THEN a.last.val
                                ELSE Null)
       ELSE AllocReturn(l, l, "ptr", Null)

\* <UefiAlloc as GlobalAlloc>::alloc; size, align are layout.size() and
\* layout.align(); st, out are what firmware answers allocate_pool
alloc(m, size, align, st, out) ==
    LET l == log(BeginAlloc(m, "alloc", <<size, align>>), "uefi::alloc",
                 "allocating")
    IN IF ~Running(l) THEN l
       ELSE IF align > PoolAlign THEN AllocReturn(l, l, "ptr", Null)
       ELSE IF get_boot_table(l) = "Some"
       THEN LET b == TempBoot(l)
                a == IF Running(b)
                     THEN BootServices_allocate_pool(b, LOADER_DATA, size,
                                                     st, out)
                     ELSE b
            IN IF ~Running(a) THEN a
               \* .unwrap_or(null_mut())
               ELSE AllocReturn(a, l, "ptr",
                                IF a.last.res = "Ok" THEN a.last.val
                                ELSE Null)
       ELSE AllocReturn(l, l, "ptr", Null)

\* a dealloc that unwraps the result of free_pool
dealloc_unwrapping(m, ptr, size, align, st) ==
    LET l == BeginAlloc(m, "dealloc", <<ptr, size, align>>)
    IN IF ptr = Null THEN AllocReturn(l, l, "unit", "none")
       ELSE IF get_boot_table(l) = "Some"
       THEN LET b == TempBoot(l)
                f == IF Running(b) THEN BootServices_free_pool(b, ptr, st)
                     ELSE b
            IN IF ~Running(f) THEN f
               ELSE IF f.last.res = "Err"
               THEN Panic(AllocReturn(f, l, "none", "none"))
               ELSE AllocReturn(f, l, "unit", "none")
       ELSE AllocReturn(l, l, "unit", "none")

\* <UefiAlloc as GlobalAlloc>::dealloc; st is what firmware answers
\* free_pool
dealloc(m, ptr, size, align, st) ==
    LET l == BeginAlloc(m, "dealloc", <<ptr, size, align>>)
    IN IF ptr = Null THEN AllocReturn(l, l, "unit", "none")
       ELSE IF get_boot_table(l) = "Some"
       THEN LET b == TempBoot(l)
                f == IF Running(b) THEN BootServices_free_pool(b, ptr, st)
                     ELSE b
            IN IF ~Running(f) THEN f
               ELSE IF f.last.res = "Err"
               THEN AllocReturn(log(f, "uefi::alloc", "dealloc_error"), l,
                                "unit", "none")
               ELSE AllocReturn(f, l, "unit", "none")
       ELSE AllocReturn(l, l, "unit", "none")

(***************************************************************************)
(* Device Path codec (device_path.rs)                                      *)
(***************************************************************************)
\* the header counted with a four-byte len field
DevicePathHdr_size_wide == 1 + 1 + 4

\* size_of::<DevicePathHdr>(): repr(C, packed) of ty, sub_ty and len: [u8; 2]
DevicePathHdr_size == 4

\* the length bytes taken most significant first
u16_from_be_bytes(b) == 256 * b[1] + b[2]

\* u16::from_le_bytes(self.len)
u16_from_le_bytes(b) == b[1] + 256 * b[2]

\* u16::to_le_bytes
u16_to_le_bytes(n) == <<n % 256, n \div 256>>

\* the header read with ty and sub_ty in each other's place
DevicePathHdr_at_swapped(buf, off) ==
    [ty |-> buf[off + 2], sub_ty |-> buf[off + 1],
     len |-> <<buf[off + 3], buf[off + 4]>>]

\* the header read with len one byte early
DevicePathHdr_at_shifted(buf, off) ==
    [ty |-> buf[off + 1], sub_ty |-> buf[off + 2],
     len |-> <<buf[off + 2], buf[off + 3]>>]

\* the DevicePathHdr at byte offset off of buf: ty, sub_ty, len in the
\* order of the packed struct
DevicePathHdr_at(buf, off) ==
    [ty |-> buf[off + 1], sub_ty |-> buf[off + 2],
     len |-> <<buf[off + 3], buf[off + 4]>>]

\* end markers: type 0x7F with subtype 0xFF (whole path) or 0x01 (instance)
END_TYPE == 127
END_ENTIRE == 255
END_INSTANCE == 1

is_end_entire(hdr) == hdr.ty = END_TYPE /\ hdr.sub_ty = END_ENTIRE

Max(a, b) == IF a >= b THEN a ELSE b

MalformedBinary(maxRead) ==
    [ok |-> FALSE, nodes |-> <<>>, maxRead |-> maxRead]

\* parse from offset off on: decode the header, validate its length against
\* what remains, only then make the node view, advance by the length
RECURSIVE parse_from(_, _, _, _)
parse_from(buf, off, nodes, maxRead) ==
    IF Len(buf) - off < DevicePathHdr_size THEN MalformedBinary(maxRead)
    ELSE LET hdr == DevicePathHdr_at(buf, off)
             n == u16_from_le_bytes(hdr.len)
             r == Max(maxRead, off + DevicePathHdr_size)
         IN IF n < DevicePathHdr_size \/ off + n > Len(buf)
            THEN MalformedBinary(r)
            ELSE LET view == [ty |-> hdr.ty, sub_ty |-> hdr.sub_ty,
                              data |-> SubSeq(buf, off + DevicePathHdr_size
                                                       + 1, off + n)]
                     seen == Append(nodes, view)
                 IN IF is_end_entire(hdr)
                    THEN [ok |-> TRUE, nodes |-> seen,
                          maxRead |-> Max(r, off + n)]
                    ELSE parse_from(buf, off + n, seen, Max(r, off + n))

\* parse(bytes)
parse(buf) == parse_from(buf, 0, <<>>, 0)

\* the encoding of a node sequence: each header with the length of its
\* node, then the payload
RECURSIVE serialize(_)
serialize(nodes) ==
    IF nodes = <<>> THEN <<>>
    ELSE LET node == Head(nodes)
         IN <<node.ty, node.sub_ty>>
            \o u16_to_le_bytes(DevicePathHdr_size + Len(node.data))
            \o node.data \o serialize(Tail(nodes))

\* size_of(path): GetDevicePathSize walks the headers of a valid path up
\* to and including the end-of-whole-path node
RECURSIVE size_from(_, _)
size_from(buf, off) ==
    LET hdr == DevicePathHdr_at(buf, off)
        n == u16_from_le_bytes(hdr.len)
    IN IF is_end_entire(hdr) THEN off + n ELSE size_from(buf, off + n)

size_of(buf) == size_from(buf, 0)

\* duplicate(path): DuplicateDevicePath copies size_of(path) bytes
duplicate(buf) == SubSeq(buf, 1, size_of(buf))

\* the End Entire Device Path node: a header and no payload
EndEntire == <<END_TYPE, END_ENTIRE>> \o u16_to_le_bytes(DevicePathHdr_size)

\* append(a, b): AppendDevicePath copies src1 up to its end node, then
\* src2 with its end node
append(a, b) ==
    SubSeq(a, 1, size_of(a) - DevicePathHdr_size) \o SubSeq(b, 1, size_of(b))

\* append_node(path, node): AppendDeviceNode appends the node as a path of
\* its own, closed by an end node
append_node(path, node) == append(path, node \o EndEntire)

(***************************************************************************)
(* Protocol attribute (macros/src/proto.rs): the GUID                      *)
(***************************************************************************)
\* the digits of a GUID text, by value
HexDigits == <<"0", "1", "2", "3", "4", "5", "6", "7", "8", "9", "a", "b",
               "c", "d", "e", "f">>

IsHex(c) == \E v \in 0..15 : HexDigits[v + 1] = c

HexVal(c) == CHOOSE v \in 0..15 : HexDigits[v + 1] = c

\* where the hyphens of the 36 characters are
Hyphens == {9, 14, 19, 24}

\* Uuid::parse: 8-4-4-4-12 hexadecimal digits, two digits to the byte, in
\* the order of the text
Uuid_parse(s) ==
    IF /\ Len(s) = 36
       /\ \A i \in 1..36 : IF i \in Hyphens THEN s[i] = "-" ELSE IsHex(s[i])
    THEN LET NotHyphen(c) == c # "-"
             d == SelectSeq(s, NotHyphen)
         IN [ok |-> TRUE,
             bytes |-> [i \in 1..16 |->
                           16 * HexVal(d[2 * i - 1]) + HexVal(d[2 * i])]]
    ELSE [ok |-> FALSE, bytes |-> <<>>]

\* the first three fields (4, 2 and 2 bytes) byte-swapped, the rest as it is
swap_fields(b) ==
    <<b[4], b[3], b[2], b[1], b[6], b[5], b[8], b[7]>> \o SubSeq(b, 9, 16)

\* Uuid::from_bytes_me, Uuid::to_bytes_me, Uuid::to_bytes: a Uuid keeps its
\* bytes in the order of the text
Uuid_from_bytes_me(b) == swap_fields(b)
Uuid_to_bytes_me(u) == swap_fields(u)
Uuid_to_bytes(u) == u

\* Uuid::parse_me: the text read as mixed-endian
Uuid_parse_me(s) ==
    LET r == Uuid_parse(s)
    IN [ok |-> r.ok,
        uuid |-> IF r.ok THEN Uuid_from_bytes_me(r.bytes) ELSE <<>>]

\* Uuid::to_str: the bytes as lowercase hyphenated text
Uuid_to_str(u) ==
    [i \in 1..36 |->
        IF i \in Hyphens THEN "-"
        ELSE LET k == i - Cardinality({h \in Hyphens : h < i})
                 b == u[(k + 1) \div 2]
             IN HexDigits[(IF k % 2 = 1 THEN b \div 16 ELSE b % 16) + 1]]

\* Guid::__from_bytes_protocol and Guid::_to_bytes: a Guid is its 16 bytes
Guid_from_bytes_protocol(bytes) == bytes
Guid_to_bytes(g) == g

\* Option<String>
None_String == [some |-> FALSE, text |-> <<>>]
Some_String(s) == [some |-> TRUE, text |-> s]

\* error_def: the all-zero GUID generated next to an error
error_def == [i \in 1..16 |-> 0]

\* the GUID generated from the bytes of the mixed-endian form
proto_guid_bytes_me(guid) ==
    IF guid.some
    THEN LET r == Uuid_parse_me(guid.text)
         IN IF r.ok
            THEN [GUID |-> Guid_from_bytes_protocol(Uuid_to_bytes_me(r.uuid)),
                  errors |-> <<>>]
            ELSE [GUID |-> error_def, errors |-> <<"Invalid GUID">>]
    ELSE [GUID |-> error_def, errors |-> <<"Missing Protocol GUID">>]

\* proto: guid_bytes, the value of Protocol::GUID, and the errors pushed
proto_guid_bytes(guid) ==
    IF guid.some
    THEN LET r == Uuid_parse_me(guid.text)
         IN IF r.ok
            THEN [GUID |-> Guid_from_bytes_protocol(Uuid_to_bytes(r.uuid)),
                  errors |-> <<>>]
            ELSE [GUID |-> error_def, errors |-> <<"Invalid GUID">>]
    ELSE [GUID |-> error_def, errors |-> <<"Missing Protocol GUID">>]

(***************************************************************************)
(* entry attribute (macros/src/entry.rs)                                   *)
(***************************************************************************)
\* u64::MAX, at the width of the scaled-down native integer
u64_MAX == UsizeMax

\* LitInt::base10_parse::<u64>
base10_parse_u64(n) == [ok |-> n <= u64_MAX, val |-> n]

None_u64 == [some |-> FALSE, val |-> 0]
Some_u64(n) == [some |-> TRUE, val |-> n]

\* Log::new() inside Some, and None
Log_new == [some |-> TRUE, color |-> FALSE, all |-> FALSE,
            targets |-> "None", exclude |-> "None"]
None_Log == [some |-> FALSE, color |-> FALSE, all |-> FALSE,
             targets |-> "None", exclude |-> "None"]

\* Config::new()
Config_new == [krate |-> "None", delay |-> None_u64, alloc |-> FALSE,
               panic |-> FALSE, alloc_error |-> FALSE, log |-> None_Log]

\* Error::new(span, message): on and at stand for the span, the argument
\* or parameter the error points at; an Error is a list of messages
Error_new(msg, on, at) == <<[msg |-> msg, on |-> on, at |-> at]>>

\* errors.push(Error::new(..)) for the argument at
push(st, msg, at) ==
    [st EXCEPT !.errors = Append(@, Error_new(msg, "arg", at))]

Handled(st) == [handled |-> TRUE, st |-> st]
NotHandled(st) == [handled |-> FALSE, st |-> st]

\* krate
entry_krate(i, meta, at, st) ==
    IF i = "crate"
    THEN Handled(
           IF meta.lit = "Str"
           THEN IF st.opts.krate # "None"
                THEN push(st, "Duplicate attribute crate", at)
                ELSE [st EXCEPT !.opts.krate = "Some"]
           ELSE push(st, "Expected string literal", at))
    ELSE NotHandled(st)

\* delay
entry_delay(i, list, at, st) ==
    IF i = "delay"
    THEN Handled(
           IF list.nested # <<>>
           THEN LET f == Head(list.nested)
                IN IF f.kind # "Lit"
                   THEN push(st, "Expected value", at)
                   ELSE IF f.lit = "Int"
                   THEN LET lit == base10_parse_u64(f.n)
                        IN IF lit.ok
                           THEN LET set == [st EXCEPT !.opts.delay =
                                                        Some_u64(lit.val)]
                                IN IF st.opts.delay.some
                                   THEN push(set,
                                             "Duplicate attribute delay",
                                             at)
                                   ELSE set
                           ELSE st
                   ELSE push(st, "Expected integer", at)
           ELSE push(st, "Expected value", at))
    ELSE NotHandled(st)

\* the loop of log over list.nested: lg is the Log being filled in
RECURSIVE entry_log_nested(_, _, _, _)
entry_log_nested(nested, at, lg, st) ==
    IF nested = <<>> THEN [log |-> lg, st |-> st]
    ELSE LET a == Head(nested)
             rest == Tail(nested)
             unexpected == push(st, "Unexpected argument", at)
         IN IF a.kind = "Path"
            THEN IF a.name = "" THEN entry_log_nested(rest, at, lg, st)
                 ELSE IF a.name = "color"
                 THEN entry_log_nested(
                        rest, at, [lg EXCEPT !.color = TRUE],
                        IF lg.color
                        THEN push(st, "Duplicate attribute color", at)
                        ELSE st)
                 ELSE IF a.name = "all"
                 THEN entry_log_nested(rest, at, lg, st)
                 ELSE entry_log_nested(rest, at, lg, unexpected)
            ELSE IF a.kind = "List"
            THEN IF a.name = "" THEN entry_log_nested(rest, at, lg, st)
                 ELSE IF a.name = "exclude"
                 THEN IF lg.exclude # "None"
                      THEN entry_log_nested(
                             rest, at, lg,
                             push(st, "Duplicate attribute exclude", at))
                      ELSE entry_log_nested(
                             rest, at, [lg EXCEPT !.exclude = "Some"], st)
                 ELSE entry_log_nested(rest, at, lg, unexpected)
            ELSE entry_log_nested(rest, at, lg, unexpected)

\* log
entry_log(i, list, at, st) ==
    IF i = "log"
    THEN LET r == entry_log_nested(list.nested, at, Log_new, st)
             set == [r.st EXCEPT !.opts.log = r.log]
         IN Handled(IF r.st.opts.log.some
                    THEN push(set, "Duplicate attribute log", at)
                    ELSE set)
    ELSE NotHandled(st)

\* unexpected_as_path
unexpected_as_path(i, path, at, st) ==
    IF i = "delay"
    THEN Handled(push(st, "Attribute delay expected value", at))
    ELSE NotHandled(st)

\* simple_opts
simple_opts(i, path, at, st) ==
    IF i = "log"
    THEN LET set == [st EXCEPT !.opts.log = Log_new]
         IN Handled(IF st.opts.log.some
                    THEN push(set, "Duplicate attribute log", at)
                    ELSE set)
    ELSE IF i = "alloc"
    THEN LET set == [st EXCEPT !.opts.alloc = TRUE]
         IN Handled(IF st.opts.alloc
                    THEN push(set, "Duplicate attribute alloc", at)
                    ELSE set)
    ELSE IF i = "alloc_error"
    THEN LET set == [st EXCEPT !.opts.alloc_error = TRUE]
         IN Handled(IF st.opts.alloc_error
                    THEN push(set, "Duplicate attribute alloc_error", at)
                    ELSE set)
    ELSE IF i = "panic"
    THEN LET set == [st EXCEPT !.opts.panic = TRUE]
         IN Handled(IF st.opts.panic
                    THEN push(set, "Duplicate attribute panic", at)
                    ELSE set)
    ELSE NotHandled(st)

\* the body of the loop of parse_args for the argument arg at position at
parse_arg(arg, at, st) ==
    LET unexpected == push(st, "Unexpected argument", at)
    IN IF arg.kind = "NameValue"
       THEN IF arg.name # ""
            THEN LET k == entry_krate(arg.name, arg, at, st)
                 IN IF k.handled THEN k.st ELSE unexpected
            ELSE unexpected
       ELSE IF arg.kind = "List"
       THEN IF arg.name # ""
            THEN LET d == entry_delay(arg.name, arg, at, st)
                     l == entry_log(arg.name, arg, at, st)
                 IN IF d.handled THEN d.st
                    ELSE IF l.handled THEN l.st
                    ELSE unexpected
            ELSE unexpected
       ELSE IF arg.kind = "Path"
       THEN IF arg.name # ""
            THEN LET s == simple_opts(arg.name, arg, at, st)
                     u == unexpected_as_path(arg.name, arg, at, st)
                 IN IF s.handled THEN s.st
                    ELSE IF u.handled THEN u.st
                    ELSE unexpected
            ELSE unexpected
       ELSE push(st, "Unknown literal", at)

\* parse_args: the arguments from position at on
RECURSIVE parse_args(_, _, _)
parse_args(args, at, st) ==
    IF at > Len(args) THEN st
    ELSE parse_args(args, at + 1, parse_arg(args[at], at, st))

\* entry: the Unexpected argument errors of the parameters from k on
RECURSIVE unexpected_params(_, _, _)
unexpected_params(params, k, errors) ==
    IF k > Len(params) THEN errors
    ELSE unexpected_params(
           params, k + 1,
           Append(errors, Error_new("Unexpected argument", "param", k)))

\* entry: Cannot be a method for a receiver among params.iter().take(2)
RECURSIVE receivers(_, _, _)
receivers(params, k, errors) ==
    IF k > Len(params) \/ k > 2 THEN errors
    ELSE receivers(
           params, k + 1,
           IF params[k] = "Receiver"
           THEN Append(errors, Error_new("Cannot be a method", "param", k))
           ELSE errors)

\* the signature check with the parameters beyond the third unexpected
entry_signature_from_fourth(params, errors) ==
    LET none == IF params = <<>>
                THEN Append(errors, Error_new("Incorrect function signature",
                                              "sig", 0))
                ELSE errors
        one == IF Len(params) = 1
               THEN Append(none, Error_new("Missing table argument",
                                           "param", 1))
               ELSE none
        more == IF Len(params) > 3 THEN unexpected_params(params, 4, one)
                ELSE one
    IN receivers(params, 1, more)

\* entry: the check of sig.inputs
entry_signature(params, errors) ==
    LET none == IF params = <<>>
                THEN Append(errors, Error_new("Incorrect function signature",
                                              "sig", 0))
                ELSE errors
        one == IF Len(params) = 1
               THEN Append(none, Error_new("Missing table argument",
                                           "param", 1))
               ELSE none
        more == IF Len(params) > 2 THEN unexpected_params(params, 3, one)
                ELSE one
    IN receivers(params, 1, more)

\* a combine that keeps only the accumulated error
combine_first(acc, e) == acc

\* Error::combine: the messages of e are added to those of acc
combine(acc, e) == acc \o e

\* errors.into_iter().reduce(|acc, e| { acc.combine(e); acc })
RECURSIVE fold(_, _)
fold(acc, errors) ==
    IF errors = <<>> THEN acc
    ELSE fold(combine(acc, Head(errors)), Tail(errors))

reduce(errors) ==
    IF errors = <<>> THEN [some |-> FALSE, e |-> <<>>]
    ELSE [some |-> TRUE, e |-> fold(Head(errors), Tail(errors))]

\* entry: the Config, the errors, and whether and with which messages a
\* compile error is put in front of the expansion
entry(args, params) ==
    LET st == parse_args(args, 1, [opts |-> Config_new, errors |-> <<>>])
        errors == entry_signature(params, st.errors)
        e == reduce(errors)
    IN [cfg |-> st.opts, errors |-> errors, compile_error |-> e.some,
        emitted |-> e.e]

(***************************************************************************)
(* Actions                                                                 *)
(***************************************************************************)
Images == {Null, "image"}
SystemTables == {Null, "systab"}
\* durations around the firmware's width, in seconds and in microseconds,
\* and below one second
Durations ==
    {Duration_new(secs, nanos) :
        secs \in {0, 1, UsizeMax, UsizeMax + 1},
        nanos \in {0, 1000 * UsizeMax, 1000 * (UsizeMax + 1),
                   NanosPerSec \div 2}}
Timeouts == {None_Duration} \cup {Some_Duration(dur) : dur \in Durations}
Guids == {"guid"}
ImageHandles == {Null, "himg"}
SrcLens == {0, UsizeMax}

\* firmware calls the entry point, once
EfiMainEnter ==
    /\ pc = "entry"
    /\ \E image \in Images, system_table \in SystemTables,
          valid \in {SUCCESS, UNSUPPORTED} :
          Becomes(efi_main_enter(Cur, image, system_table, valid))

EfiMainStoreTable ==
    /\ pc = "stored_handle"
    /\ Becomes([store_second(Cur, "image", "systab")
                   EXCEPT !.pc = "stored_table"])

EfiMainCallMain ==
    /\ pc = "stored_table"
    /\ Becomes(efi_main_call_main(Cur))

\* the user main returns; its Scopes have gone out of scope by then
MainReturn ==
    /\ pc = "main"
    /\ \A s \in 1..MaxScopes : scopes[s].state # "open"
    /\ \E r \in {Ok} \cup {Err(st) : st \in ErrStatuses} :
          Becomes(efi_main_return(Cur, r))

\* firmware leaves the boot phase under the running image (a started image
\* or a raw call exits boot services): the live table loses boot_services
FwExitBootServices ==
    /\ pc = "main"
    /\ fw.boot_services # Null
    /\ fw' = [fw EXCEPT !.boot_services = Null]
    /\ hist' = [hist EXCEPT !.exited = TRUE]
    /\ UNCHANGED <<pc, TABLE, HANDLE, fwOpen, scopes, boot, last, ret, dp,
                   loaded_image, mac>>

\* a callback (logger, panic handler, allocator) reads the globals
Probe ==
    /\ pc \in {"entry", "stored_handle", "stored_table", "main"}
    /\ Becomes(read_globals(Cur))

\* user code: table.boot()
Boot ==
    /\ pc = "main"
    /\ Becomes(SystemTable_boot(Begin(Cur, "boot", 0)))

Exit ==
    /\ pc = "main" /\ boot # Null
    /\ \E st \in Statuses \cup {Fault} :
          /\ FwAllows(Cur, "exit", <<"image", SUCCESS>>, st)
          /\ Becomes(BootServices_exit(Cur, "image", SUCCESS, st))

Stall ==
    /\ pc = "main" /\ boot # Null
    /\ \E dur \in Durations, st \in Statuses \cup {Fault} :
          /\ FwAllows(Cur, "stall", <<as_micros(dur)>>, st)
          /\ Becomes(BootServices_stall(Cur, dur, st))

SetWatchdog ==
    /\ pc = "main" /\ boot # Null
    /\ \E timeout \in Timeouts, st \in Statuses \cup {Fault} :
          /\ FwAllows(Cur, "set_watchdog_timer", <<>>, st)
          /\ Becomes(BootServices_set_watchdog(Cur, timeout, st))

LocateProtocol ==
    /\ pc = "main" /\ boot # Null
    /\ \E guid \in Guids, st \in Statuses \cup {Fault},
          out \in Pointers :
          /\ FwAllows(Cur, "locate_protocol", <<guid, Null>>, st)
          /\ Becomes(BootServices_locate_protocol(Cur, guid, st, out))

LoadImage ==
    /\ pc = "main" /\ boot # Null
    /\ \E len \in SrcLens, out \in ImageHandles,
          st \in Statuses \cup {SECURITY_VIOLATION, Fault} :
          /\ FwAllows(Cur, "load_image", <<>>, st)
          /\ Becomes(BootServices_load_image(Cur, "image", len, st, out))

NextMonotonicCount ==
    /\ pc = "main" /\ boot # Null
    /\ \E st \in Statuses \cup {Fault} :
          /\ FwAllows(Cur, "get_next_monotonic_count", <<>>, st)
          /\ Becomes(BootServices_next_monotonic_count(Cur, st))

AllocatePool ==
    /\ pc = "main" /\ boot # Null
    /\ \E st \in Statuses \cup {Fault}, out \in Pointers :
          /\ FwAllows(Cur, "allocate_pool", <<LOADER_DATA, 16>>, st)
          /\ Becomes(BootServices_allocate_pool(Cur, LOADER_DATA, 16, st,
                                                out))

FreePool ==
    /\ pc = "main" /\ boot # Null
    /\ \E st \in Statuses \cup {Fault} :
          /\ FwAllows(Cur, "free_pool", <<"p1">>, st)
          /\ Becomes(BootServices_free_pool(Cur, "p1", st))

StartImage ==
    /\ pc = "main" /\ boot # Null
    /\ \E st \in Statuses \cup {Fault} :
          /\ FwAllows(Cur, "start_image", <<"h1">>, st)
          /\ Becomes(BootServices_start_image(Cur, "h1", st))

UnloadImage ==
    /\ pc = "main" /\ boot # Null
    /\ \E st \in Statuses \cup {Fault} :
          /\ FwAllows(Cur, "unload_image", <<"h1">>, st)
          /\ Becomes(BootServices_unload_image(Cur, "h1", st))

InstallProtocol ==
    /\ pc = "main" /\ boot # Null
    /\ \E st \in Statuses \cup {Fault} :
          /\ FwAllows(Cur, "install_protocol_interface", <<"h1", "iface">>, st)
          /\ Becomes(BootServices_install_protocol(Cur, "h1", "iface", st))

\* user code closes a registration directly
CloseProtocol ==
    /\ pc = "main" /\ boot # Null
    /\ \E h \in Handles, a \in Agents, c \in Controllers,
          st \in Statuses \cup {Fault} :
          /\ FwAllows(Cur, "close_protocol", <<h, a, unwrap_or_null(c)>>, st)
          /\ Becomes(BootServices_close_protocol(Cur, h, a, c, st))

OpenProtocol ==
    /\ pc = "main" /\ boot # Null
    /\ FreeScope(Cur) # 0
    /\ \E h \in Handles, a \in Agents, c \in Controllers,
          st \in Statuses \cup {Fault} :
          /\ FwAllows(Cur, "open_protocol", <<h, a, unwrap_or_null(c)>>, st)
          /\ Becomes(BootServices_open_protocol(Cur, h, a, c, st))

\* the three ways a Scope ends; each takes the Scope by value
ScopeClose ==
    /\ pc = "main"
    /\ \E s \in 1..MaxScopes, st \in Statuses :
          /\ scopes[s].state = "open"
          /\ FwAllows(Cur, "close_protocol",
                      <<scopes[s].handle, scopes[s].agent,
                        unwrap_or_null(scopes[s].controller)>>, st)
          /\ Becomes(Scope_close(Cur, s, st))

ScopeLeak ==
    /\ pc = "main"
    /\ \E s \in 1..MaxScopes :
          /\ scopes[s].state = "open"
          /\ Becomes(Scope_leak(Cur, s))

ScopeDrop ==
    /\ pc = "main"
    /\ \E s \in 1..MaxScopes, st \in Statuses :
          /\ scopes[s].state = "open"
          /\ FwAllows(Cur, "close_protocol",
                      <<scopes[s].handle, scopes[s].agent,
                        unwrap_or_null(scopes[s].controller)>>, st)
          /\ Becomes(Scope_implicit_drop(Cur, s, st))

Sizes == {0, 16}
Aligns == {1, PoolAlign, 2 * PoolAlign}

\* the global allocator is called: by the image, or by a callback that runs
\* before the globals are installed
Alloc ==
    /\ pc \in {"entry", "stored_handle", "stored_table", "main"}
    /\ \E size \in Sizes, align \in Aligns, st \in Statuses,
          out \in Pointers :
          /\ FwAllows(Cur, "allocate_pool", <<LOADER_DATA, size>>, st)
          /\ Becomes(alloc(Cur, size, align, st, out))

Dealloc ==
    /\ pc \in {"entry", "stored_handle", "stored_table", "main"}
    /\ \E ptr \in Pointers, size \in Sizes, align \in Aligns,
          st \in Statuses :
          /\ FwAllows(Cur, "free_pool", <<ptr>>, st)
          /\ Becomes(dealloc(Cur, ptr, size, align, st))

\* node records a buffer is put together from: a header whose declared
\* length is too small, exact, one more than exact or far too large, with
\* or without one byte of payload
Chunks ==
    {<<ty, sub_ty>> \o len \o data :
        ty \in {1, END_TYPE}, sub_ty \in {END_INSTANCE, END_ENTIRE},
        len \in {<<3, 0>>, <<4, 0>>, <<5, 0>>, <<0, 4>>},
        data \in {<<>>, <<170>>}}

\* what may follow the last whole record: nothing, or a cut-off header
Tails == {<<>>, <<END_TYPE>>, <<END_TYPE, END_ENTIRE, 4>>}

RECURSIVE ChunkSeqs(_)
ChunkSeqs(n) ==
    IF n = 0 THEN {<<>>}
    ELSE LET shorter == ChunkSeqs(n - 1)
         IN shorter \cup {b \o c : b \in shorter, c \in Chunks}

Buffers == {b \o t : b \in ChunkSeqs(MaxNodes), t \in Tails}

\* the codec is handed a buffer
InitPath ==
    /\ dp \in {[NoPath EXCEPT !.buf = b, !.state = "input"] : b \in Buffers}
    /\ loaded_image = NoImage
    /\ mac = NoMacro
    /\ pc = "entry"
    /\ TABLE = Null
    /\ HANDLE = Null
    /\ fw = [boot_services |-> "bs", con_out |-> "con", absent |-> {}]
    /\ fwOpen = {}
    /\ scopes = [s \in 1..MaxScopes |-> NoScope]
    /\ boot = Null
    /\ last = NoLast
    /\ ret = "none"
    /\ hist = [tableWrites |-> 0, handleWrites |-> 0, mainCalls |-> 0,
               exited |-> FALSE]

Parse ==
    /\ dp.state = "input"
    /\ LET r == parse(dp.buf)
       IN dp' = [dp EXCEPT !.state = IF r.ok THEN "parsed" ELSE "malformed",
                           !.nodes = r.nodes, !.maxRead = r.maxRead]
    /\ UNCHANGED <<pc, TABLE, HANDLE, fw, fwOpen, scopes, boot, last, ret,
                   hist, loaded_image, mac>>

\* the node views of a parsed path are written out again
Serialize ==
    /\ dp.state = "parsed"
    /\ dp' = [dp EXCEPT !.state = "serialized", !.out = serialize(dp.nodes)]
    /\ UNCHANGED <<pc, TABLE, HANDLE, fw, fwOpen, scopes, boot, last, ret,
                   hist, loaded_image, mac>>

\* a parsed path is duplicated
Duplicate ==
    /\ dp.state = "parsed"
    /\ dp' = [dp EXCEPT !.state = "duplicated", !.out = duplicate(dp.buf)]
    /\ UNCHANGED <<pc, TABLE, HANDLE, fw, fwOpen, scopes, boot, last, ret,
                   hist, loaded_image, mac>>

\* whether the bytes c are one node whose declared length is their number
IsNode(c) ==
    /\ Len(c) >= 4
    /\ c[3] + 256 * c[4] = Len(c)

\* the nodes a path is made of: every kind but the end of the whole path
DeviceNodes ==
    {c \in Chunks : IsNode(c) /\ ~(c[1] = 127 /\ c[2] = 255)}

RECURSIVE NodeSeqs(_)
NodeSeqs(n) ==
    IF n = 0 THEN {<<>>}
    ELSE LET shorter == NodeSeqs(n - 1)
         IN shorter \cup {b \o c : b \in shorter, c \in DeviceNodes}

\* DevicePath values: fewer than MaxNodes nodes, then the 4-byte End Entire
\* Device Path node
DevicePaths == {b \o <<127, 255, 4, 0>> : b \in NodeSeqs(MaxNodes - 1)}

\* size_of of the path at the start of a parsed buffer
SizeOf ==
    /\ dp.state = "parsed"
    /\ dp' = [dp EXCEPT !.state = "sized", !.size = size_of(dp.buf)]
    /\ UNCHANGED <<pc, TABLE, HANDLE, fw, fwOpen, scopes, boot, last, ret,
                   hist, loaded_image, mac>>

\* a second path is appended to the path in the buffer
AppendPath ==
    /\ dp.state = "input"
    /\ dp.buf \in DevicePaths
    /\ \E b \in DevicePaths :
          dp' = [dp EXCEPT !.state = "appended", !.other = b,
                           !.out = append(dp.buf, b)]
    /\ UNCHANGED <<pc, TABLE, HANDLE, fw, fwOpen, scopes, boot, last, ret,
                   hist, loaded_image, mac>>

\* a node is appended to the path in the buffer
AppendNode ==
    /\ dp.state = "input"
    /\ dp.buf \in DevicePaths
    /\ \E node \in DeviceNodes :
          dp' = [dp EXCEPT !.state = "node_appended", !.other = node,
                           !.out = append_node(dp.buf, node)]
    /\ UNCHANGED <<pc, TABLE, HANDLE, fw, fwOpen, scopes, boot, last, ret,
                   hist, loaded_image, mac>>

NextPath ==
    \/ Parse
    \/ Serialize
    \/ Duplicate
    \/ SizeOf
    \/ AppendPath
    \/ AppendNode

SpecPath == InitPath /\ [][NextPath]_vars

\* the five groups of a GUID text: those of the Protocol macro's test and
\* others
Group1 == {<<"c", "9", "8", "6", "e", "c", "2", "7">>,
           <<"0", "0", "0", "0", "0", "0", "0", "1">>}
Group2 == {<<"a", "f", "5", "4">>, <<"0", "2", "0", "0">>}
Group3 == {<<"4", "b", "5", "5">>, <<"1", "1", "d", "2">>}
Group4 == {<<"8", "0", "a", "a">>, <<"8", "e", "3", "9">>}
Group5 == {<<"9", "1", "6", "9", "7", "f", "c", "d", "f", "8", "e", "b">>,
           <<"0", "0", "a", "0", "c", "9", "6", "9", "7", "2", "3", "b">>}

GuidTexts ==
    {a \o <<"-">> \o b \o <<"-">> \o c \o <<"-">> \o d \o <<"-">> \o e :
        a \in Group1, b \in Group2, c \in Group3, d \in Group4, e \in Group5}

\* strings that are no GUID: too short, a letter that is no digit, a
\* hyphen out of place
BadTexts ==
    {<<"c", "9", "8", "6">>}
    \cup {[t EXCEPT ![1] = "g"] : t \in GuidTexts}
    \cup {[t EXCEPT ![9] = "0", ![10] = "-"] : t \in GuidTexts}

\* what Protocol is given: no GUID string, or one
ProtocolInputs ==
    {[NoMacro EXCEPT !.kind = "Protocol", !.state = "input", !.text = g] :
        g \in {None_String}
              \cup {Some_String(t) : t \in GuidTexts \cup BadTexts}}

\* number of arguments of entry(...)
MaxArgs == 2
\* number of parameters of the annotated function
MaxParams == 3

\* an item nested in a list argument, and an argument: NameValue
\* (name = lit), List (name(nested)), Path (name) or Lit; n is the value of
\* an integer literal
Item(kind, name, lit, n) == [kind |-> kind, name |-> name, lit |-> lit, n |-> n]
Arg(kind, name, lit, nested) ==
    [kind |-> kind, name |-> name, lit |-> lit, n |-> 0, nested |-> nested]

EntryArgs ==
    {Arg("NameValue", "crate", "Str", <<>>),
     Arg("NameValue", "crate", "ByteStr", <<>>),
     Arg("NameValue", "fake", "Bool", <<>>),
     Arg("List", "fake", "none", <<Item("Lit", "", "Int", 1)>>),
     Arg("Lit", "", "Str", <<>>)}
    \cup {Arg("List", "delay", "none", nested) :
            nested \in {<<>>, <<Item("Lit", "", "Int", 1)>>,
                        <<Item("Lit", "", "Int", u64_MAX + 1)>>,
                        <<Item("Lit", "", "Str", 0)>>}}
    \cup {Arg("List", "log", "none", nested) :
            nested \in {<<Item("Path", "color", "none", 0)>>,
                        <<Item("Path", "all", "none", 0)>>,
                        <<Item("List", "exclude", "none", 0)>>,
                        <<Item("Path", "color", "none", 0),
                          Item("Path", "color", "none", 0)>>,
                        <<Item("Path", "fake", "none", 0)>>}}
    \cup {Arg("Path", name, "none", <<>>) :
            name \in {"log", "alloc", "alloc_error", "panic", "delay",
                      "fake"}}

RECURSIVE SeqsUpTo(_, _)
SeqsUpTo(S, n) ==
    IF n = 0 THEN {<<>>}
    ELSE LET shorter == SeqsUpTo(S, n - 1)
         IN shorter \cup {Append(s, x) : s \in shorter, x \in S}

\* what entry is given: its arguments and the parameters of the function;
\* every argument list on a function of two typed parameters or of none,
\* and every parameter list under at most one argument
EntryInputs ==
    {[NoMacro EXCEPT !.kind = "entry", !.state = "input", !.args = a,
                     !.params = p] :
        a \in SeqsUpTo(EntryArgs, MaxArgs),
        p \in {<<>>, <<"Typed", "Typed">>}}
    \cup {[NoMacro EXCEPT !.kind = "entry", !.state = "input", !.args = a,
                          !.params = p] :
            a \in SeqsUpTo(EntryArgs, 1),
            p \in SeqsUpTo({"Typed", "Receiver"}, MaxParams)}

\* a macro is given its input
InitMacro ==
    /\ mac \in ProtocolInputs \cup EntryInputs
    /\ dp = NoPath
    /\ loaded_image = NoImage
    /\ pc = "entry"
    /\ TABLE = Null
    /\ HANDLE = Null
    /\ fw = [boot_services |-> "bs", con_out |-> "con", absent |-> {}]
    /\ fwOpen = {}
    /\ scopes = [s \in 1..MaxScopes |-> NoScope]
    /\ boot = Null
    /\ last = NoLast
    /\ ret = "none"
    /\ hist = [tableWrites |-> 0, handleWrites |-> 0, mainCalls |-> 0,
               exited |-> FALSE]

\* #[Protocol(..)] is expanded
ProtocolExpand ==
    /\ mac.kind = "Protocol"
    /\ mac.state = "input"
    /\ LET r == proto_guid_bytes(mac.text)
       IN mac' = [mac EXCEPT !.state = "expanded", !.guid = r.GUID,
                             !.errors = r.errors]
    /\ UNCHANGED <<pc, TABLE, HANDLE, fw, fwOpen, scopes, boot, last, ret,
                   hist, dp, loaded_image>>

\* the bytes of the generated GUID are turned back into text
GuidToText ==
    /\ mac.kind = "Protocol"
    /\ mac.state = "expanded"
    /\ mac.errors = <<>>
    /\ mac' = [mac EXCEPT
                  !.state = "printed",
                  !.back = Uuid_to_str(
                             Uuid_from_bytes_me(Guid_to_bytes(mac.guid)))]
    /\ UNCHANGED <<pc, TABLE, HANDLE, fw, fwOpen, scopes, boot, last, ret,
                   hist, dp, loaded_image>>

\* #[entry(..)] is expanded
EntryExpand ==
    /\ mac.kind = "entry"
    /\ mac.state = "input"
    /\ LET r == entry(mac.args, mac.params)
       IN mac' = [mac EXCEPT !.state = "expanded", !.cfg = r.cfg,
                             !.errors = r.errors, !.emitted = r.emitted,
                             !.compile_error = r.compile_error]
    /\ UNCHANGED <<pc, TABLE, HANDLE, fw, fwOpen, scopes, boot, last, ret,
                   hist, dp, loaded_image>>

NextMacro ==
    \/ ProtocolExpand
    \/ GuidToText
    \/ EntryExpand

SpecMacro == InitMacro /\ [][NextMacro]_vars

\* entry, table phase and Scope lifecycle
Next ==
    \/ EfiMainEnter
    \/ EfiMainStoreTable
    \/ EfiMainCallMain
    \/ MainReturn
    \/ FwExitBootServices
    \/ Probe
    \/ Boot
    \/ CloseProtocol
    \/ OpenProtocol
    \/ ScopeClose
    \/ ScopeLeak
    \/ ScopeDrop

Spec == Init /\ [][Next]_vars

\* entry, table phase and the boot-services operations that pass the
\* firmware status through
\* the lengths of the slice and the sizes of its element type
DataLens == {0, 1, 2, u32_MAX, u32_MAX + 1}
ElementSizes == {1, 2}

\* user code sets the load options of an image
SetOptions ==
    /\ pc = "main"
    /\ \E len \in DataLens, size \in ElementSizes,
          overflow_checks \in BOOLEAN :
          Becomes(LoadedImage_set_options(Cur, len, size, overflow_checks))

NextOps ==
    \/ SetOptions
    \/ EfiMainEnter
    \/ EfiMainStoreTable
    \/ EfiMainCallMain
    \/ MainReturn
    \/ FwExitBootServices
    \/ Boot
    \/ Exit
    \/ Stall
    \/ NextMonotonicCount
    \/ SetWatchdog
    \/ LocateProtocol
    \/ LoadImage
    \/ AllocatePool
    \/ FreePool
    \/ CloseProtocol
    \/ StartImage
    \/ UnloadImage
    \/ InstallProtocol

SpecOps == Init /\ [][NextOps]_vars

\* entry, table phase and the pool allocator bridge
NextAlloc ==
    \/ EfiMainEnter
    \/ EfiMainStoreTable
    \/ EfiMainCallMain
    \/ MainReturn
    \/ FwExitBootServices
    \/ Alloc
    \/ Dealloc

SpecAlloc == Init /\ [][NextAlloc]_vars

(***************************************************************************)
(* Properties                                                              *)
(***************************************************************************)
Ended == {"closed", "leaked", "dropped"}

\* C1: every Scope ends at most once, by exactly one of close, leak or
\* implicit destruction, and at most one close_protocol call is ever issued
\* on its behalf; a live Scope has had none.
C1_ScopeEndsOnce ==
    \A s \in 1..MaxScopes :
        /\ scopes[s].endings <= 1
        /\ scopes[s].attempts <= 1
        /\ scopes[s].state \in Ended <=> scopes[s].endings = 1
        /\ scopes[s].state \in {"unopened", "open"} => scopes[s].attempts = 0
        /\ scopes[s].state = "leaked" => scopes[s].attempts = 0

\* a Scope was closed explicitly while another was destroyed implicitly,
\* each with its one close_protocol call
C1_Witness ==
    \E s, t \in 1..MaxScopes :
        /\ scopes[s].state = "closed" /\ scopes[s].attempts = 1
        /\ scopes[t].state = "dropped" /\ scopes[t].attempts = 1

\* C2: close() hands the result of the firmware close_protocol call to its
\* caller: a non-success firmware status comes back as that error.
C2_ClosePropagates ==
    (last.op = "close" /\ last.fwOp = "close_protocol"
        /\ ~IsSuccess(last.fwStatus))
    => (last.res = "Err" /\ last.status = last.fwStatus)

\* C3: the step in which a Scope is leaked invokes no firmware function and
\* leaves firmware's registrations as they were, and a leaked Scope never
\* changes again: no close_protocol call is ever issued on its behalf.
C3_LeakNeverCloses ==
    [][\A s \in 1..MaxScopes :
          /\ (scopes[s].state = "open" /\ scopes'[s].state = "leaked")
                => /\ last'.op = "leak" /\ last'.fwOp = "none"
                   /\ fwOpen' = fwOpen
                   /\ scopes'[s].attempts = 0
          /\ scopes[s].state = "leaked" => scopes'[s] = scopes[s]]_vars

\* a Scope has just been leaked and its registration is still open
C3_Witness ==
    /\ last.op = "leak"
    /\ scopes[last.who].state = "leaked"
    /\ fwOpen # {}

\* C4: implicit destruction closes with the triple given to open_protocol
\* and returns normally whatever the firmware table holds.
C4_DropInfallible ==
    last.op = "drop"
    => /\ pc # "panicked"
       /\ scopes[last.who].state = "dropped"
       /\ last.at = "boot" => (last.fwOp = "close_protocol"
                                /\ last.fwArgs = last.args)
       /\ (last.fwOp = "close_protocol" /\ ~IsSuccess(last.fwStatus))
             => "drop_error" \in last.logs

\* C5: a Scope destroyed after boot services are gone invokes no firmware
\* function, hands the logger the record that no close is possible, and
\* the destruction returns normally.
C5_DropAfterBootServices ==
    (last.op \in {"drop", "close"} /\ last.at = "runtime")
    => /\ last.fwOp = "none"
       /\ "drop_after_boot" \in last.logs
       /\ pc = "main"
       /\ scopes[last.who].state \in {"dropped", "closed"}
       /\ scopes[last.who].attempts = 0

\* a Scope opened in the boot phase was dropped after firmware left it
C5_Witness ==
    /\ last.op = "drop"
    /\ last.at = "runtime"
    /\ scopes[last.who].state = "dropped"

\* C6: open_protocol yields a Scope bound to the given triple on success,
\* "not present" on UNSUPPORTED and an error with the raw status otherwise;
\* a failed open creates no Scope.
C6_OpenProtocolMapping ==
    [][(last'.op = "open_protocol" /\ last'.fwOp = "open_protocol"
           /\ last'.fwStatus # Fault /\ hist' = hist)
       => IF last'.fwStatus = SUCCESS
          THEN /\ last'.res = "Some"
               /\ last'.who \in 1..MaxScopes
               /\ scopes[last'.who].state = "unopened"
               /\ scopes'[last'.who].state = "open"
               /\ scopes'[last'.who].attempts = 0
               /\ last'.fwArgs = <<scopes'[last'.who].handle,
                                   scopes'[last'.who].agent,
                                   unwrap_or_null(
                                       scopes'[last'.who].controller)>>
               /\ \A t \in 1..MaxScopes \ {last'.who} :
                     scopes'[t] = scopes[t]
          ELSE /\ scopes' = scopes
               /\ last'.who = 0
               /\ IF last'.fwStatus = UNSUPPORTED
                  THEN last'.res = "None"
                  ELSE last'.res = "Err"
                       /\ last'.status = last'.fwStatus]_vars

\* open_protocol has just failed with a status other than UNSUPPORTED
C6_Witness ==
    /\ last.op = "open_protocol"
    /\ last.fwStatus = ACCESS_DENIED
    /\ last.res = "Err"
    /\ \E s \in 1..MaxScopes : scopes[s].state = "open"

\* C7: get_boot_table returns a Boot table exactly when the call is made
\* after the globals are installed and before firmware nulled boot_services;
\* every later call returns nothing.
C7_AsBootTracksPhase ==
    last.op = "get_boot_table" => (last.res = "Some" <=> last.at = "boot")

\* a callback asked for the Boot table after boot services were gone
C7_Witness ==
    /\ last.op = "get_boot_table"
    /\ last.at = "runtime"
    /\ last.res = "None"

\* C8: no operation that starts after boot_services was nulled invokes a
\* boot-services firmware function.
C8_NoBootCallAfterExit == last.at = "runtime" => last.fwOp = "none"

\* C9: each global is written at most once, both before main is called, and
\* whoever sees the table pointer set sees the image handle of that entry.
C9_GlobalsWrittenOnce ==
    /\ hist.tableWrites <= 1
    /\ hist.handleWrites <= 1
    /\ hist.mainCalls >= 1 => (hist.tableWrites = 1 /\ hist.handleWrites = 1)
    /\ TABLE # Null => HANDLE = "image"
    /\ (last.op = "get_boot_table" /\ last.res = "Some")
          => last.val = "image"

\* a callback ran between the store of the table pointer and main
C9_Witness ==
    /\ pc = "stored_table"
    /\ last.op = "get_boot_table"
    /\ last.res = "Some"

PassThroughOps == {"exit", "stall", "next_monotonic_count", "allocate_pool",
                   "free_pool", "close_protocol", "start_image",
                   "unload_image", "install_protocol"}

\* C10: a boot-services operation whose firmware function returned a
\* non-success status returns an error with exactly that status, and
\* efi_main returns SUCCESS for Ok and the error's status for Err.
C10_RawStatusRetained ==
    /\ (last.op \in PassThroughOps /\ last.fwOp # "none"
           /\ last.fwStatus \notin {SUCCESS, Fault})
          => (last.res = "Err" /\ last.status = last.fwStatus)
    /\ (pc = "returned" /\ last.op = "main_returned")
          => /\ last.res = "Ok" => ret = SUCCESS
             /\ last.res = "Err" => ret = last.status

\* an operation has just failed with the firmware's status
C10_Witness ==
    /\ last.op = "free_pool"
    /\ last.fwStatus = ACCESS_DENIED
    /\ last.res = "Err"
    /\ last.status = ACCESS_DENIED

\* C11: alloc with an alignment above 8 returns null and invokes no firmware
\* function, whatever the size and in every phase.
C11_AllocRejectsAlignment ==
    (last.op = "alloc" /\ last.args[2] > 8)
    => /\ pc \notin {"panicked", "faulted"}
       /\ last.res = "ptr"
       /\ last.val = Null
       /\ last.fwCalls = 0

\* alloc(16, 16) was refused while a Boot table was reachable
C11_Witness ==
    /\ last.op = "alloc"
    /\ last.args = <<16, 16>>
    /\ last.at = "boot"
    /\ last.val = Null

\* C12: alloc with an alignment of at most 8, called while no Boot table is
\* reachable (before the globals are installed, or after boot services are
\* gone), returns null without invoking a firmware function or panicking.
C12_AllocWithoutBootTable ==
    (last.op = "alloc" /\ last.args[2] <= 8 /\ last.at # "boot")
    => /\ pc \notin {"panicked", "faulted"}
       /\ last.res = "ptr"
       /\ last.val = Null
       /\ last.fwCalls = 0

\* alloc(16, 8) was called after boot services were gone
C12_Witness ==
    /\ last.op = "alloc"
    /\ last.args = <<16, 8>>
    /\ last.at = "runtime"
    /\ last.val = Null

C15_NoSilentTruncation ==
    /\ last.op = "stall"
          => LET dur == last.args[1]
                 micros == dur.secs * 1000000 + dur.nanos \div 1000
             IN IF micros >= 2 ^ UsizeBits
                THEN /\ last.res = "Err"
                     /\ last.status = INVALID_PARAMETER
                     /\ last.fwCalls = 0
                ELSE /\ last.fwCalls = 1
                     /\ last.fwOp = "stall"
                     /\ last.fwArgs = <<micros>>
    /\ last.op = "set_watchdog"
          => LET secs == IF last.args[1].some THEN last.args[1].dur.secs
                         ELSE 0
             IN IF secs >= 2 ^ UsizeBits
                THEN /\ last.res = "Err"
                     /\ last.status = INVALID_PARAMETER
                     /\ last.fwCalls = 0
                ELSE /\ last.fwCalls = 1
                     /\ last.fwOp = "set_watchdog_timer"
                     /\ last.fwArgs[1] = secs

\* a stall of one microsecond more than fits was refused
C15_Witness ==
    /\ last.op = "stall"
    /\ last.args[1] = [secs |-> 0, nanos |-> 1000 * 2 ^ UsizeBits]
    /\ last.res = "Err"
    /\ last.status = INVALID_PARAMETER
    /\ last.fwCalls = 0

\* C16: set_watchdog passes timeout 0 to firmware, which disables the
\* timer, exactly when its argument is None: every Some(duration) other
\* than the zero duration arms the timer.
C16_WatchdogDisabledOnlyByNone ==
    (last.op = "set_watchdog" /\ last.fwCalls = 1)
    => /\ ~last.args[1].some => last.fwArgs[1] = 0
       /\ (last.args[1].some
             /\ last.args[1].dur # [secs |-> 0, nanos |-> 0])
             => last.fwArgs[1] # 0

\* C17: locate_protocol returns the instance made of firmware's interface
\* pointer on success, "not found" on NOT_FOUND and an error with the raw
\* status on every other status.
C17_LocateProtocolMapping ==
    (last.op = "locate_protocol" /\ last.fwCalls = 1
        /\ last.fwStatus # Fault)
    => IF last.fwStatus = SUCCESS
       THEN last.res = "Some" /\ last.val = last.fwOut
       ELSE IF last.fwStatus = NOT_FOUND
       THEN last.res = "None"
       ELSE last.res = "Err" /\ last.status = last.fwStatus

\* firmware found no instance of the protocol
C17_Witness ==
    /\ last.op = "locate_protocol"
    /\ last.fwStatus = NOT_FOUND
    /\ last.res = "None"

\* C18: load_image never panics; it returns the image handle for SUCCESS
\* and for SECURITY_VIOLATION, the value returned telling the two apart,
\* and an error with the raw status otherwise.
C18_LoadImageSecurityViolation ==
    (last.op = "load_image" /\ last.fwCalls = 1 /\ last.fwStatus # Fault)
    => /\ pc # "panicked"
       /\ IF last.fwStatus \in {SUCCESS, SECURITY_VIOLATION}
          THEN /\ last.res = "Ok"
               /\ last.val = last.fwOut
               /\ last.status = last.fwStatus
          ELSE /\ last.res = "Err"
               /\ last.status = last.fwStatus

\* whether, following the little-endian lengths from offset off of B, some
\* node offset has fewer than 4 bytes left, a length below 4, or a length
\* that runs past the end of B
RECURSIVE SomeNodeMalformed(_, _)
SomeNodeMalformed(B, off) ==
    IF Len(B) - off < 4 THEN TRUE
    ELSE LET n == B[off + 3] + 256 * B[off + 4]
         IN IF n < 4 \/ off + n > Len(B) THEN TRUE
            ELSE IF B[off + 1] = 127 /\ B[off + 2] = 255 THEN FALSE
            ELSE SomeNodeMalformed(B, off + n)

\* C19: parse never reads past the end of the buffer, and for every buffer
\* with a malformed node it fails with MalformedBinary and exposes no node
\* view; a buffer without one parses.
C19_ParseRejectsMalformed ==
    /\ dp.maxRead <= Len(dp.buf)
    /\ dp.state \in {"parsed", "malformed"}
          => /\ dp.state = "malformed" <=> SomeNodeMalformed(dp.buf, 0)
             /\ dp.state = "malformed" => dp.nodes = <<>>

\* a buffer whose first node is valid and whose second node declares a
\* length that runs past the end was refused
C19_Witness ==
    /\ dp.state = "malformed"
    /\ Len(dp.buf) = 8
    /\ dp.maxRead = 8
    /\ dp.nodes = <<>>

\* whether B from offset off on is a node sequence that ends, with the end
\* of B, in the end-of-whole-path node
RECURSIVE WellFormedPath(_, _)
WellFormedPath(B, off) ==
    /\ Len(B) - off >= 4
    /\ LET n == B[off + 3] + 256 * B[off + 4]
       IN /\ n >= 4
          /\ off + n <= Len(B)
          /\ IF B[off + 1] = 127 /\ B[off + 2] = 255
             THEN off + n = Len(B)
             ELSE WellFormedPath(B, off + n)

\* C20: a well-formed path buffer parses, serialising the node sequence
\* parsed from it gives back the same bytes, and so does duplicate.
C20_RoundTrip ==
    WellFormedPath(dp.buf, 0)
    => /\ dp.state # "malformed"
       /\ dp.state \in {"serialized", "duplicated"} => dp.out = dp.buf

\* a path of a node with payload and the terminator came back byte for byte
C20_Witness ==
    /\ dp.state = "serialized"
    /\ Len(dp.nodes) = 2
    /\ dp.nodes[1].data # <<>>
    /\ dp.out = dp.buf

\* the node views of the path bytes B, read byte by byte: type, subtype
\* and the payload the little-endian length declares
RECURSIVE NodeViews(_, _)
NodeViews(B, off) ==
    LET n == B[off + 3] + 256 * B[off + 4]
        view == [ty |-> B[off + 1], sub_ty |-> B[off + 2],
                 data |-> SubSeq(B, off + 5, off + n)]
    IN IF off + n >= Len(B) THEN <<view>>
       ELSE <<view>> \o NodeViews(B, off + n)

\* a sequence without its last element
Front(s) == SubSeq(s, 1, Len(s) - 1)

\* the view of the end-of-whole-path terminator
TerminatorView == [ty |-> 127, sub_ty |-> 255, data |-> <<>>]

\* C21: append(a, b) parses to the nodes of a without its terminator, then
\* the nodes of b without its terminator, then one end-of-whole-path
\* terminator with nothing after it, and is size_of(a) + size_of(b) - 4
\* bytes long; append_node(path, node) parses to the nodes of path with
\* node put immediately before the terminator.
C21_AppendConcatenates ==
    /\ dp.state = "appended"
          => LET r == parse(dp.out)
             IN /\ r.ok
                /\ r.maxRead = Len(dp.out)
                /\ r.nodes = Front(NodeViews(dp.buf, 0))
                              \o Front(NodeViews(dp.other, 0))
                              \o <<TerminatorView>>
                /\ Len(dp.out) = Len(dp.buf) + Len(dp.other) - 4
                /\ size_of(dp.out) = size_of(dp.buf) + size_of(dp.other) - 4
    /\ dp.state = "node_appended"
          => LET r == parse(dp.out)
             IN /\ r.ok
                /\ r.maxRead = Len(dp.out)
                /\ r.nodes = Front(NodeViews(dp.buf, 0))
                              \o NodeViews(dp.other, 0)
                              \o <<TerminatorView>>

\* a path of one node with payload was appended to a path of one node:
\* two nodes and one terminator, 4 + 5 + 4 bytes
C21_Witness ==
    /\ dp.state = "appended"
    /\ Len(dp.buf) = 8
    /\ Len(dp.other) = 9
    /\ Len(dp.out) = 13
    /\ Len(parse(dp.out).nodes) = 3

\* the sum of the lengths the nodes of the path at the start of B declare,
\* the end-of-whole-path terminator included
RECURSIVE DeclaredLengths(_, _)
DeclaredLengths(B, off) ==
    LET n == B[off + 3] + 256 * B[off + 4]
    IN IF B[off + 1] = 127 /\ B[off + 2] = 255 THEN n
       ELSE n + DeclaredLengths(B, off + n)

\* C22: size_of(path) is the sum of the declared lengths of all nodes of
\* the path, terminator included; the buffer 7F FF 04 00 is a valid path of
\* the terminator alone, and its size_of is 4.
C22_SizeOfIsEncodedLength ==
    /\ dp.state = "sized" => dp.size = DeclaredLengths(dp.buf, 0)
    /\ dp.buf = <<127, 255, 4, 0>>
          => /\ dp.state # "malformed"
             /\ dp.state \in {"parsed", "sized"}
                   => dp.nodes = <<TerminatorView>>
             /\ dp.state = "sized" => dp.size = 4

\* the terminator-only buffer was sized
C22_Witness ==
    /\ dp.state = "sized"
    /\ dp.buf = <<127, 255, 4, 0>>
    /\ dp.size = 4

\* whether s is a GUID text: 8-4-4-4-12 lowercase hexadecimal digits
IsGuidText(s) ==
    /\ Len(s) = 36
    /\ \A i \in 1..36 :
          IF i \in {9, 14, 19, 24} THEN s[i] = "-"
          ELSE s[i] \in {"0", "1", "2", "3", "4", "5", "6", "7", "8", "9",
                         "a", "b", "c", "d", "e", "f"}

\* the UEFI packing of a GUID text: the first three fields least
\* significant byte first, the last two as written
MixedEndianPacking(s) ==
    LET byte(i) == 16 * HexVal(s[i]) + HexVal(s[i + 1])
    IN <<byte(7), byte(5), byte(3), byte(1), byte(12), byte(10), byte(17),
         byte(15), byte(20), byte(22), byte(25), byte(27), byte(29),
         byte(31), byte(33), byte(35)>>

RECURSIVE Messages(_)
Messages(errors) ==
    IF errors = <<>> THEN <<>>
    ELSE Head(errors) \o Messages(Tail(errors))

\* the option names entry knows
KnownOptions == {"crate", "delay", "log", "alloc", "alloc_error", "panic"}

\* an argument with a name entry does not know
Unrecognised(arg) ==
    /\ arg.kind \in {"NameValue", "List", "Path"}
    /\ arg.name \notin KnownOptions

\* an option with a value of the wrong type: crate with anything but a
\* string, delay with a literal that is no integer
WrongType(arg) ==
    \/ arg.kind = "NameValue" /\ arg.name = "crate" /\ arg.lit # "Str"
    \/ /\ arg.kind = "List" /\ arg.name = "delay" /\ arg.nested # <<>>
       /\ Head(arg.nested).kind = "Lit"
       /\ Head(arg.nested).lit # "Int"

\* whether the compile error carries one of the messages msgs for the
\* argument at position i
Reported(i, msgs) ==
    \E k \in 1..Len(mac.emitted) :
        /\ mac.emitted[k].on = "arg"
        /\ mac.emitted[k].at = i
        /\ mac.emitted[k].msg \in msgs

\* C24: in an expansion of entry every argument with an unrecognised name
\* and every value of the wrong type has an error of its own in the compile
\* error, the compile error carries every recorded error, and it is emitted
\* exactly when at least one error was recorded.
C24_EntryReportsEveryError ==
    (mac.kind = "entry" /\ mac.state = "expanded")
    => /\ \A i \in 1..Len(mac.args) :
             /\ Unrecognised(mac.args[i])
                   => Reported(i, {"Unexpected argument"})
             /\ WrongType(mac.args[i])
                   => Reported(i, {"Expected string literal",
                                   "Expected integer"})
       /\ mac.emitted = Messages(mac.errors)
       /\ mac.compile_error <=> mac.errors # <<>>

\* entry(crate = b"bytes", fake = true) on a function of two typed
\* parameters: both errors are in the compile error
C24_Witness ==
    /\ mac.kind = "entry"
    /\ mac.state = "expanded"
    /\ Len(mac.args) = 2
    /\ mac.args[1].lit = "ByteStr"
    /\ mac.args[2].name = "fake"
    /\ mac.args[2].kind = "NameValue"
    /\ mac.params = <<"Typed", "Typed">>
    /\ mac.compile_error
    /\ Len(mac.emitted) = 2
    /\ mac.emitted[1].msg = "Expected string literal"
    /\ mac.emitted[2].msg = "Unexpected argument"

\* how many recorded errors about the signature carry the message msg
SignatureErrors(msg) ==
    Cardinality({k \in 1..Len(Messages(mac.errors)) :
                    /\ Messages(mac.errors)[k].on \in {"sig", "param"}
                    /\ Messages(mac.errors)[k].msg = msg})

\* whether a signature error msg was recorded for the parameter k
SignatureErrorAt(msg, k) ==
    \E j \in 1..Len(Messages(mac.errors)) :
        Messages(mac.errors)[j] = [msg |-> msg, on |-> "param", at |-> k]

\* C27: the signature check of entry by the number of parameters: none, one
\* Incorrect function signature; one, Missing table argument; beyond the
\* second, one Unexpected argument each; a receiver among the first two,
\* Cannot be a method; two typed parameters, no signature error.
C27_EntrySignatureCheck ==
    (mac.kind = "entry" /\ mac.state = "expanded")
    => LET n == Len(mac.params)
           first == {k \in 1..n : k <= 2}
       IN /\ SignatureErrors("Incorrect function signature")
                = IF n = 0 THEN 1 ELSE 0
          /\ SignatureErrors("Missing table argument")
                = IF n = 1 THEN 1 ELSE 0
          /\ SignatureErrors("Unexpected argument")
                = IF n > 2 THEN n - 2 ELSE 0
          /\ \A k \in 3..n : SignatureErrorAt("Unexpected argument", k)
          /\ \A k \in first :
                mac.params[k] = "Receiver"
                <=> SignatureErrorAt("Cannot be a method", k)
          /\ SignatureErrors("Cannot be a method")
                = Cardinality({k \in first : mac.params[k] = "Receiver"})

\* a function of three typed parameters: one Unexpected argument, for the
\* third
C27_Witness ==
    /\ mac.kind = "entry"
    /\ mac.state = "expanded"
    /\ mac.args = <<>>
    /\ mac.params = <<"Typed", "Typed", "Typed">>
    /\ Len(mac.emitted) = 1
    /\ mac.emitted[1] = [msg |-> "Unexpected argument", on |-> "param",
                         at |-> 3]

\* Config and errors before parse_args reaches the argument at position i
BeforeArg(i) ==
    parse_args(SubSeq(mac.args, 1, i - 1), 1,
               [opts |-> Config_new, errors |-> <<>>])

\* C28: every argument of entry either records something in the Config or
\* appends at least one error: no argument leaves both as they were.
C28_NoArgumentIgnored ==
    (mac.kind = "entry" /\ mac.state = "expanded")
    => \A i \in 1..Len(mac.args) :
          parse_arg(mac.args[i], i, BeforeArg(i)) # BeforeArg(i)

\* C25: set_options stores exactly len * size_of::<T>() as options_size
\* when that fits in u32, and panics without storing any size when it is
\* bigger than u32::MAX; it never stores the size modulo 2^32.
C25_SetOptionsExactSize ==
    last.op = "set_options"
    => LET bytes == last.args[1] * last.args[2]
       IN IF bytes <= u32_MAX
          THEN pc # "panicked" /\ loaded_image.options_size = bytes
          ELSE pc = "panicked"

C29_LiveScopeStaysRegistered ==
    ~hist.exited
    => \A s \in 1..MaxScopes :
          scopes[s].state = "open"
          => <<scopes[s].handle, scopes[s].agent,
               unwrap_or_null(scopes[s].controller)>> \in fwOpen

\* C30: as_boot and _as_runtime never both return a table for the same
\* firmware table, and _as_runtime returns one only when the boot_services
\* pointer is null.
C30_PhaseProbesExclusive ==
    /\ ~(as_boot(Cur) = "Some" /\ as_runtime(Cur) = "Some")
    /\ as_runtime(Cur) = "Some" => fw.boot_services = Null

====
